---- MODULE Spec2Model ----
(***************************************************************************)
(* Model of the grammar and spell checker library                          *)
(* (chrome-extension/lib/grammar-checker.js) and of the two hosts that     *)
(* call it (chrome-extension/content.js and the popup script).             *)
(*                                                                         *)
(* A JavaScript string is a sequence of one-character strings.  A          *)
(* JavaScript value is a record [type, str, num]; str is the string value  *)
(* when type = "string" and <<>> otherwise.                                *)
(***************************************************************************)
EXTENDS Integers, Sequences, FiniteSets, TLC

(***************************************************************************)
(* Characters                                                              *)
(***************************************************************************)
LowerLetters ==
    <<"a", "b", "c", "d", "e", "f", "g", "h", "i", "j", "k", "l", "m",
      "n", "o", "p", "q", "r", "s", "t", "u", "v", "w", "x", "y", "z">>

UpperLetters ==
    <<"A", "B", "C", "D", "E", "F", "G", "H", "I", "J", "K", "L", "M",
      "N", "O", "P", "Q", "R", "S", "T", "U", "V", "W", "X", "Y", "Z">>

DigitChars == {"0", "1", "2", "3", "4", "5", "6", "7", "8", "9"}

LowerSet == {LowerLetters[i] : i \in 1..26}

UpperSet == {UpperLetters[i] : i \in 1..26}

\* \w of a JavaScript regular expression without the u flag
WordChars == LowerSet \cup UpperSet \cup DigitChars \cup {"_"}

\* \s of a JavaScript regular expression (the members used by the inputs)
WhitespaceChars == {" ", "\t", "\n"}

VowelChars == {"a", "e", "i", "o", "u"}

IsWordChar(c) == c \in WordChars

IsSpace(c) == c \in WhitespaceChars

ToLowerTable ==
    [c \in UpperSet |-> LowerLetters[CHOOSE i \in 1..26 : UpperLetters[i] = c]]

ToUpperTable ==
    [c \in LowerSet |-> UpperLetters[CHOOSE i \in 1..26 : LowerLetters[i] = c]]

ToLowerChar(c) == IF c \in UpperSet THEN ToLowerTable[c] ELSE c

ToUpperChar(c) == IF c \in LowerSet THEN ToUpperTable[c] ELSE c

\* String.prototype.toLowerCase / toUpperCase
ToLowerCase(s) == [i \in 1..Len(s) |-> ToLowerChar(s[i])]

ToUpperCase(s) == [i \in 1..Len(s) |-> ToUpperChar(s[i])]

\* the least and the greatest element of a non-empty set of integers
Min(S) == CHOOSE x \in S : \A y \in S : x <= y

Max(S) == CHOOSE x \in S : \A y \in S : y <= x

\* the k-th smallest element of a finite set of integers
KthOf(S, k) == CHOOSE x \in S : Cardinality({y \in S : y < x}) = k - 1

\* trimStart in the place of trim
TrimStartOnly(s) ==
    LET lead == {i \in 1..Len(s) : ~IsSpace(s[i])}
    IN  IF lead = {} THEN <<>> ELSE SubSeq(s, Min(lead), Len(s))

\* String.prototype.trim: the string without its leading and its trailing
\* run of whitespace
Trim(s) ==
    LET lead == {i \in 1..Len(s) : ~IsSpace(s[i])}
        trail == {k \in 0..(Len(s) - 1) : ~IsSpace(s[Len(s) - k])}
    IN  IF lead = {} THEN <<>> ELSE SubSeq(s, Min(lead), Len(s) - Min(trail))

\* Array.prototype.join('') of an array of strings
RECURSIVE Join(_)
Join(parts) ==
    IF parts = <<>> THEN <<>> ELSE Head(parts) \o Join(Tail(parts))

(***************************************************************************)
(* JavaScript values                                                       *)
(***************************************************************************)
JSString(s) == [type |-> "string", str |-> s, num |-> 0]

JSNumber(n) == [type |-> "number", str |-> <<>>, num |-> n]

JSNull == [type |-> "null", str |-> <<>>, num |-> 0]

JSUndefined == [type |-> "undefined", str |-> <<>>, num |-> 0]

JSFalse == [type |-> "boolean", str |-> <<>>, num |-> 0]

JSTrue == [type |-> "boolean", str |-> <<>>, num |-> 1]

JSObject == [type |-> "object", str |-> <<>>, num |-> 0]

JSFunction == [type |-> "function", str |-> <<>>, num |-> 0]

\* ToBoolean
Truthy(v) ==
    CASE v.type = "string" -> Len(v.str) > 0
      [] v.type = "number" -> v.num # 0
      [] v.type = "boolean" -> v.num = 1
      [] v.type \in {"null", "undefined"} -> FALSE
      [] OTHER -> TRUE

(***************************************************************************)
(* The spelling dictionary and the rule table built by the constructor     *)
(***************************************************************************)
InitialSpellingCorrections ==
       (<<"t", "e", "h">> :> <<"t", "h", "e">>) @@
       (<<"r", "e", "c", "i", "e", "v", "e">> :> <<"r", "e", "c", "e", "i", "v", "e">>) @@
       (<<"s", "e", "p", "e", "r", "a", "t", "e">> :> <<"s", "e", "p", "a", "r", "a", "t", "e">>) @@
       (<<"d", "e", "f", "i", "n", "a", "t", "e", "l", "y">> :> <<"d", "e", "f", "i", "n", "i", "t", "e", "l", "y">>) @@
       (<<"o", "c", "c", "u", "r", "e", "d">> :> <<"o", "c", "c", "u", "r", "r", "e", "d">>) @@
       (<<"u", "n", "t", "i", "l", "l">> :> <<"u", "n", "t", "i", "l">>) @@
       (<<"s", "u", "c", "e", "s", "s", "f", "u", "l">> :> <<"s", "u", "c", "c", "e", "s", "s", "f", "u", "l">>) @@
       (<<"t", "o", "m", "m", "o", "r", "o", "w">> :> <<"t", "o", "m", "o", "r", "r", "o", "w">>) @@
       (<<"m", "e", "t", "t", "i", "n", "g">> :> <<"m", "e", "e", "t", "i", "n", "g">>) @@
       (<<"b", "e", "c", "u", "a", "s", "e">> :> <<"b", "e", "c", "a", "u", "s", "e">>) @@
       (<<"w", "i", "c", "h">> :> <<"w", "h", "i", "c", "h">>) @@
       (<<"t", "h", "i", "e", "r">> :> <<"t", "h", "e", "i", "r">>) @@
       (<<"w", "i", "e", "r", "d">> :> <<"w", "e", "i", "r", "d">>) @@
       (<<"b", "e", "l", "e", "i", "v", "e">> :> <<"b", "e", "l", "i", "e", "v", "e">>) @@
       (<<"c", "a", "l", "e", "n", "d", "e", "r">> :> <<"c", "a", "l", "e", "n", "d", "a", "r">>) @@
       (<<"a", "r", "g", "u", "e", "m", "e", "n", "t">> :> <<"a", "r", "g", "u", "m", "e", "n", "t">>) @@
       (<<"e", "x", "i", "s", "t", "a", "n", "c", "e">> :> <<"e", "x", "i", "s", "t", "e", "n", "c", "e">>) @@
       (<<"g", "o", "v", "e", "r", "m", "e", "n", "t">> :> <<"g", "o", "v", "e", "r", "n", "m", "e", "n", "t">>) @@
       (<<"o", "c", "c", "a", "s", "s", "i", "o", "n">> :> <<"o", "c", "c", "a", "s", "i", "o", "n">>) @@
       (<<"r", "e", "a", "l", "y">> :> <<"r", "e", "a", "l", "l", "y">>) @@
       (<<"r", "e", "c", "c", "o", "m", "e", "n", "d">> :> <<"r", "e", "c", "o", "m", "m", "e", "n", "d">>) @@
       (<<"w", "r", "i", "t", "t", "i", "n", "g">> :> <<"w", "r", "i", "t", "i", "n", "g">>) @@
       (<<"y", "o", "u", "r", "e">> :> <<"y", "o", "u", "'", "r", "e">>) @@
       (<<"u", "r">> :> <<"y", "o", "u", "r">>) @@
       (<<"d", "r", "e", "a", "m", "m">> :> <<"d", "r", "e", "a", "m">>) @@
       (<<"l", "e", "t", "t">> :> <<"l", "e", "t">>)

\* The dictionary is an object literal: a property read that misses the own
\* properties continues on Object.prototype.
ObjectPrototypeFunctions ==
    { <<"c", "o", "n", "s", "t", "r", "u", "c", "t", "o", "r">>,
      <<"h", "a", "s", "O", "w", "n", "P", "r", "o", "p", "e", "r", "t", "y">>,
      <<"i", "s", "P", "r", "o", "t", "o", "t", "y", "p", "e", "O", "f">>,
      <<"p", "r", "o", "p", "e", "r", "t", "y", "I", "s", "E", "n", "u", "m", "e", "r", "a", "b", "l", "e">>,
      <<"t", "o", "L", "o", "c", "a", "l", "e", "S", "t", "r", "i", "n", "g">>,
      <<"t", "o", "S", "t", "r", "i", "n", "g">>,
      <<"v", "a", "l", "u", "e", "O", "f">>,
      <<"_", "_", "d", "e", "f", "i", "n", "e", "G", "e", "t", "t", "e", "r", "_", "_">>,
      <<"_", "_", "d", "e", "f", "i", "n", "e", "S", "e", "t", "t", "e", "r", "_", "_">>,
      <<"_", "_", "l", "o", "o", "k", "u", "p", "G", "e", "t", "t", "e", "r", "_", "_">>,
      <<"_", "_", "l", "o", "o", "k", "u", "p", "S", "e", "t", "t", "e", "r", "_", "_">> }

ObjectPrototypeProto == <<"_", "_", "p", "r", "o", "t", "o", "_", "_">>

\* this.spellingCorrections[lower]
GetProperty(dict, key) ==
    IF key \in DOMAIN dict THEN JSString(dict[key])
    ELSE IF key \in ObjectPrototypeFunctions THEN JSFunction
    ELSE IF key = ObjectPrototypeProto THEN JSObject
    ELSE JSUndefined

(***************************************************************************)
(* preserveCase and spellCorrect                                           *)
(***************************************************************************)
\* text.split(/\b/): p is the start of the token being built; a cut is made
\* before s[q] when exactly one of s[q-1], s[q] is a word character.  The
\* empty string splits into one empty token.
RECURSIVE SplitWordBoundaryFrom(_, _, _)
SplitWordBoundaryFrom(s, p, acc) ==
    LET cuts == {q \in (p + 1)..Len(s) : IsWordChar(s[q]) # IsWordChar(s[q - 1])}
    IN  IF cuts = {} THEN Append(acc, SubSeq(s, p, Len(s)))
        ELSE SplitWordBoundaryFrom(s, Min(cuts),
                                   Append(acc, SubSeq(s, p, Min(cuts) - 1)))

\* a split that takes the apostrophe for a word character
SplitApostropheRuns(s) ==
    LET starts == {q \in 1..Len(s) :
                     \/ q = 1
                     \/ (IsWordChar(s[q]) \/ s[q] = "'")
                        # (IsWordChar(s[q - 1]) \/ s[q - 1] = "'")}
        k == Cardinality(starts)
    IN  IF Len(s) = 0 THEN << <<>> >>
        ELSE [j \in 1..k |->
                SubSeq(s, KthOf(starts, j),
                       IF j < k THEN KthOf(starts, j + 1) - 1 ELSE Len(s))]

SplitWordBoundary(s) ==
    IF Len(s) = 0 THEN << <<>> >> ELSE SplitWordBoundaryFrom(s, 1, <<>>)

\* the first-letter test made before the all-uppercase test
preserveCaseFirstLetterFirst(original, correction) ==
    IF correction.type # "string" THEN [threw |-> TRUE, str |-> <<>>]
    ELSE IF Len(original) > 0 /\ original[1] = ToUpperChar(original[1])
    THEN [threw |-> FALSE,
          str |-> IF Len(correction.str) = 0 THEN <<>>
                  ELSE <<ToUpperChar(correction.str[1])>> \o Tail(correction.str)]
    ELSE IF original = ToUpperCase(original)
    THEN [threw |-> FALSE, str |-> ToUpperCase(correction.str)]
    ELSE [threw |-> FALSE, str |-> ToLowerCase(correction.str)]

\* preserveCase(original, correction).  correction is a JavaScript value:
\* every branch calls a String method on it, which throws a TypeError when
\* it is not a string.
preserveCase(original, correction) ==
    LET TypeError == [threw |-> TRUE, str |-> <<>>]
        isString == correction.type = "string"
    IN  IF original = ToUpperCase(original)
        THEN IF isString
             THEN [threw |-> FALSE, str |-> ToUpperCase(correction.str)]
             ELSE TypeError
        ELSE IF original[1] = ToUpperChar(original[1])
        THEN IF isString
             THEN [threw |-> FALSE,
                   str |-> IF Len(correction.str) = 0 THEN <<>>
                           ELSE <<ToUpperChar(correction.str[1])>>
                                \o Tail(correction.str)]
             ELSE TypeError
        ELSE IF isString
             THEN [threw |-> FALSE, str |-> ToLowerCase(correction.str)]
             ELSE TypeError

SpellingPrefix == <<"S", "p", "e", "l", "l", "i", "n", "g", ":", " ", "\"">>

SpellingArrow == <<"\"", " ", "→", " ", "\"">>

SpellingMessage(word, correctedWord) ==
    SpellingPrefix \o word \o SpellingArrow \o correctedWord \o <<"\"">>

SpellingChange(word, correctedWord) ==
    [type |-> "spelling", original |-> word, corrected |-> correctedWord,
     message |-> SpellingMessage(word, correctedWord)]

\* the callback of words.map: the replacement of one token and the changes
\* it pushes
SpellWord(dict, word) ==
    LET lower == ToLowerCase(word)
        correction == GetProperty(dict, lower)
    IN  IF Truthy(correction)
        THEN LET correctedWord == preserveCase(word, correction)
             IN  [threw |-> correctedWord.threw,
                  word |-> correctedWord.str,
                  changes |-> IF ~correctedWord.threw /\ word # correctedWord.str
                              THEN <<SpellingChange(word, correctedWord.str)>>
                              ELSE <<>>]
        ELSE [threw |-> FALSE, word |-> word, changes |-> <<>>]

RECURSIVE SpellWords(_, _, _, _, _)
SpellWords(dict, words, i, mapped, changes) ==
    IF i > Len(words)
    THEN [threw |-> FALSE, text |-> Join(mapped), changes |-> changes]
    ELSE LET w == SpellWord(dict, words[i])
         IN  IF w.threw
             THEN [threw |-> TRUE, text |-> <<>>, changes |-> <<>>]
             ELSE SpellWords(dict, words, i + 1, Append(mapped, w.word),
                             changes \o w.changes)

\* spellCorrect(text)
spellCorrect(dict, text) ==
    SpellWords(dict, SplitWordBoundary(text), 1, <<>>, <<>>)

(***************************************************************************)
(* The grammar rules.  Every pattern has the shape                         *)
(*     \b (alt1|alt2|...) \s+ tail        with the flags g and i           *)
(* where tail is a literal word followed by \b, or one character of the    *)
(* class [aeiou] or [^aeiou].  group is "head" when the alternation is the *)
(* capture group $1, "tail" when the class character is, "none" otherwise. *)
(***************************************************************************)
MsgAgreement ==
    <<"S", "u", "b", "j", "e", "c", "t", "-", "v", "e", "r", "b", " ", "a", "g", "r", "e", "e", "m", "e", "n", "t", " ", "e", "r", "r", "o", "r">>

MsgVerbForm ==
    <<"I", "n", "c", "o", "r", "r", "e", "c", "t", " ", "v", "e", "r", "b", " ", "f", "o", "r", "m">>

MsgArticleAn ==
    <<"A", "r", "t", "i", "c", "l", "e", " ", "u", "s", "a", "g", "e", ":", " ", "u", "s", "e", " ", "\"", "a", "n", "\"", " ", "b", "e", "f", "o", "r", "e", " ", "v", "o", "w", "e", "l", " ", "s", "o", "u", "n", "d", "s">>

MsgArticleA ==
    <<"A", "r", "t", "i", "c", "l", "e", " ", "u", "s", "a", "g", "e", ":", " ", "u", "s", "e", " ", "\"", "a", "\"", " ", "b", "e", "f", "o", "r", "e", " ", "c", "o", "n", "s", "o", "n", "a", "n", "t", " ", "s", "o", "u", "n", "d", "s">>

grammarRules ==
    << [alts |-> << <<"I">>, <<"h", "e">>, <<"s", "h", "e">>, <<"i", "t">> >>,
        group |-> "head", tailKind |-> "word", tailWord |-> <<"a", "r", "e">>,
        replacement |-> <<"$", "1", " ", "a", "m", "/", "i", "s">>,
        message |-> MsgAgreement],
       [alts |-> << <<"I">>, <<"y", "o", "u">>, <<"w", "e">>, <<"t", "h", "e", "y">> >>,
        group |-> "head", tailKind |-> "word", tailWord |-> <<"i", "s">>,
        replacement |-> <<"$", "1", " ", "a", "r", "e">>,
        message |-> MsgAgreement],
       [alts |-> << <<"I">> >>,
        group |-> "none", tailKind |-> "word", tailWord |-> <<"h", "a", "s">>,
        replacement |-> <<"I", " ", "h", "a", "v", "e">>,
        message |-> MsgVerbForm],
       [alts |-> << <<"h", "e">>, <<"s", "h", "e">>, <<"i", "t">> >>,
        group |-> "head", tailKind |-> "word", tailWord |-> <<"h", "a", "v", "e">>,
        replacement |-> <<"$", "1", " ", "h", "a", "s">>,
        message |-> MsgAgreement],
       [alts |-> << <<"a">> >>,
        group |-> "tail", tailKind |-> "vowel", tailWord |-> <<>>,
        replacement |-> <<"a", "n", " ", "$", "1">>,
        message |-> MsgArticleAn],
       [alts |-> << <<"a", "n">> >>,
        group |-> "tail", tailKind |-> "nonvowel", tailWord |-> <<>>,
        replacement |-> <<"a", " ", "$", "1">>,
        message |-> MsgArticleA] >>

NumRules == Len(grammarRules)

\* a literal of the pattern matches s at position p, ignoring case
LiteralAt(s, p, w) ==
    /\ p + Len(w) - 1 <= Len(s)
    /\ \A k \in 1..Len(w) : ToLowerChar(s[p + k - 1]) = ToLowerChar(w[k])

\* \b at the position before s[p] (p = Len(s) + 1 is the end of the string)
BoundaryAt(s, p) ==
    LET before == p > 1 /\ IsWordChar(s[p - 1])
        after == p <= Len(s) /\ IsWordChar(s[p])
    IN  before # after

\* length of the whitespace run that starts at s[p]
SpaceRun(s, p) ==
    LET stops == {q \in p..Len(s) : ~IsSpace(s[q])}
    IN  (IF stops = {} THEN Len(s) + 1 ELSE Min(stops)) - p

\* the tail of the pattern matches at q; the result is the position after
\* the match, or 0
TailEnd(s, q, rule) ==
    CASE rule.tailKind = "word" ->
           IF LiteralAt(s, q, rule.tailWord)
              /\ BoundaryAt(s, q + Len(rule.tailWord))
           THEN q + Len(rule.tailWord) ELSE 0
      [] rule.tailKind = "vowel" ->
           IF q <= Len(s) /\ ToLowerChar(s[q]) \in VowelChars THEN q + 1 ELSE 0
      [] rule.tailKind = "nonvowel" ->
           IF q <= Len(s) /\ ToLowerChar(s[q]) \notin VowelChars THEN q + 1 ELSE 0

\* the pattern after its leading \b matches at p with alternative a: \s+ is
\* greedy and gives back one character at a time, so the match uses the
\* longest run of whitespace after which the tail matches.  The result is
\* the position after the match, or 0.
AltEnd(s, p, rule, a) ==
    LET q == p + Len(rule.alts[a])
    IN  IF LiteralAt(s, p, rule.alts[a])
        THEN Max({TailEnd(s, q + k, rule) : k \in 1..SpaceRun(s, q)} \cup {0})
        ELSE 0

NoMatch ==
    [found |-> FALSE, index |-> 0, end |-> 0, text |-> <<>>, group1 |-> <<>>]

\* the match of the pattern at p with alternative a, and no match when a is
\* past the last alternative
MatchAlt(s, p, rule, a) ==
    IF a > Len(rule.alts) THEN NoMatch
    ELSE LET e == AltEnd(s, p, rule, a)
         IN  [found |-> TRUE, index |-> p, end |-> e,
              text |-> SubSeq(s, p, e - 1),
              group1 |-> CASE rule.group = "head" ->
                                SubSeq(s, p, p + Len(rule.alts[a]) - 1)
                           [] rule.group = "tail" -> SubSeq(s, e - 1, e - 1)
                           [] OTHER -> <<>>]

\* the match of the pattern at p: the first alternative that succeeds
MatchAt(s, p, rule) ==
    MatchAlt(s, p, rule,
             Min({a \in 1..Len(rule.alts) :
                    BoundaryAt(s, p) /\ AltEnd(s, p, rule, a) # 0}
                 \cup {Len(rule.alts) + 1}))

\* RegExpExec of a global pattern from position p: the leftmost match at or
\* after p; no pattern matches at the end of the string
FirstMatchFrom(s, p, rule) ==
    MatchAt(s, Min({x \in p..Len(s) : MatchAt(s, x, rule).found}
                   \cup {Len(s) + 1}), rule)

\* the successive matches of a global pattern, scanning from position p
RECURSIVE MatchesFrom(_, _, _, _)
RECURSIVE MatchesAfter(_, _, _, _)
MatchesFrom(s, p, rule, acc) ==
    MatchesAfter(s, rule, acc, FirstMatchFrom(s, p, rule))

\* the scan after the match m
MatchesAfter(s, rule, acc, m) ==
    IF ~m.found THEN acc
    ELSE MatchesFrom(s, m.end, rule, Append(acc, m))

\* an iteration that stops after the first match
MatchAllFirstOnly(s, rule, startIndex) ==
    LET ms == MatchesFrom(s, startIndex + 1, rule, <<>>)
    IN  IF ms = <<>> THEN <<>> ELSE <<Head(ms)>>

\* corrected.matchAll(rule.pattern): the iteration runs on a clone of the
\* pattern that starts at the pattern's lastIndex (0-based)
MatchAll(s, rule, startIndex) == MatchesFrom(s, startIndex + 1, rule, <<>>)

\* the replacement template with $1 expanded
RECURSIVE Expand(_, _)
Expand(template, group1) ==
    IF template = <<>> THEN <<>>
    ELSE IF Len(template) >= 2 /\ template[1] = "$" /\ template[2] = "1"
         THEN group1 \o Expand(SubSeq(template, 3, Len(template)), group1)
         ELSE <<template[1]>> \o Expand(Tail(template), group1)

RECURSIVE ReplaceMatches(_, _, _, _, _)
ReplaceMatches(s, p, matches, i, rule) ==
    IF i > Len(matches) THEN SubSeq(s, p, Len(s))
    ELSE SubSeq(s, p, matches[i].index - 1)
         \o Expand(rule.replacement, matches[i].group1)
         \o ReplaceMatches(s, matches[i].end, matches, i + 1, rule)

\* a scan that leaves lastIndex at the end of the last match
LastIndexOfLastMatch(s, rule) ==
    LET ms == MatchesFrom(s, 1, rule, <<>>)
    IN  IF ms = <<>> THEN 0 ELSE ms[Len(ms)].end - 1

\* lastIndex of a global pattern after String.prototype.replace: replace
\* resets it to 0, and the failing exec that ends the scan leaves it at 0
LastIndexAfterReplace(s, rule) == 0

\* s.replace(rule.pattern, rule.replacement): a global pattern is reset to
\* lastIndex 0 before the scan, whatever its lastIndex was
Replace(s, rule) ==
    [text |-> ReplaceMatches(s, 1, MatchesFrom(s, 1, rule, <<>>), 1, rule),
     lastIndex |-> LastIndexAfterReplace(s, rule)]

(***************************************************************************)
(* grammarCorrect, correct and generateDiff                                *)
(***************************************************************************)
\* a change that records the match itself as its correction
GrammarChangeUnreplaced(match, rule) ==
    [type |-> "grammar", original |-> match.text, corrected |-> match.text,
     message |-> rule.message]

\* the object pushed by matches.forEach for one match
GrammarChange(match, rule) ==
    [type |-> "grammar", original |-> match.text,
     corrected |-> Replace(match.text, rule).text,
     message |-> rule.message]

\* the changes pushed by matches.forEach, in the order of the matches
RECURSIVE MatchChanges(_, _, _)
MatchChanges(matches, i, rule) ==
    IF i > Len(matches) THEN <<>>
    ELSE (IF Len(matches[i].text) > 0
          THEN <<GrammarChange(matches[i], rule)>> ELSE <<>>)
         \o MatchChanges(matches, i + 1, rule)

\* this.grammarRules.forEach, from rule r on.  li is the lastIndex of every
\* rule's pattern; visited lists the rule and the match.index of every match
\* in the order in which forEach visits them.
RECURSIVE ApplyRules(_, _, _, _, _)
RECURSIVE ApplyRule(_, _, _, _, _, _)
ApplyRules(r, corrected, changes, li, visited) ==
    IF r > NumRules
    THEN [text |-> corrected, changes |-> changes, lastIndex |-> li,
          trace |-> visited]
    ELSE ApplyRule(r, changes, li, visited,
                   MatchAll(corrected, grammarRules[r], li[r]),
                   Replace(corrected, grammarRules[r]))

\* the callback of this.grammarRules.forEach for rule r, with the matches
\* and the replaced text
ApplyRule(r, changes, li, visited, matches, replaced) ==
    ApplyRules(r + 1, replaced.text,
               changes \o MatchChanges(matches, 1, grammarRules[r]),
               [li EXCEPT ![r] = replaced.lastIndex],
               visited \o [i \in 1..Len(matches) |->
                             [rule |-> r, index |-> matches[i].index,
                              text |-> matches[i].text]])

\* grammarCorrect(text)
grammarCorrect(text, li) == ApplyRules(1, text, <<>>, li, <<>>)

Thrown(li) ==
    [threw |-> TRUE, original |-> JSUndefined, spellCorrected |-> JSUndefined,
     corrected |-> JSUndefined, changes |-> <<>>, lastIndex |-> li,
     trace |-> <<>>]

\* the two pushes in the other order
CollectGrammarFirst(spellChanges, grammarChanges) ==
    grammarChanges \o spellChanges

\* changes.push(...spellResult.changes) followed by
\* changes.push(...grammarResult.changes)
CollectChanges(spellChanges, grammarChanges) == spellChanges \o grammarChanges

\* the value of finalCorrected when the grammar check is disabled
CorrectedWithoutGrammar(original, spellCorrected) == original

\* the value of each text field of the result of the guard
GuardField(text) == IF Truthy(text) THEN text ELSE JSString(<<>>)

\* the object returned by correct
CorrectionResult(original, spellResult, grammarResult) ==
    [threw |-> FALSE, original |-> JSString(original),
     spellCorrected |-> JSString(spellResult.text),
     corrected |-> JSString(grammarResult.text),
     changes |-> CollectChanges(spellResult.changes, grammarResult.changes),
     lastIndex |-> grammarResult.lastIndex,
     trace |-> grammarResult.trace]

\* step 2 of correct, after the spell check gave spellResult
GrammarStep(original, options, li, spellResult) ==
    IF spellResult.threw THEN Thrown(li)
    ELSE CorrectionResult(original, spellResult,
             IF options.grammarCheck THEN grammarCorrect(spellResult.text, li)
             ELSE [text |-> CorrectedWithoutGrammar(original, spellResult.text),
                   changes |-> <<>>, lastIndex |-> li, trace |-> <<>>])

\* correct(text, options)
correct(text, options, dict, li) ==
    IF ~Truthy(text) \/ text.type # "string"
    THEN [threw |-> FALSE, original |-> GuardField(text),
          spellCorrected |-> GuardField(text), corrected |-> GuardField(text),
          changes |-> <<>>, lastIndex |-> li, trace |-> <<>>]
    ELSE GrammarStep(Trim(text.str), options, li,
             IF options.spellCheck THEN spellCorrect(dict, Trim(text.str))
             ELSE [threw |-> FALSE, text |-> Trim(text.str),
                   changes |-> <<>>])

\* s.split(/(\s+)/): the runs of non-whitespace (possibly empty at either
\* end) alternate with the captured runs of whitespace
RECURSIVE SplitWhitespaceFrom(_, _, _)
SplitWhitespaceFrom(s, p, acc) ==
    LET ws == {q \in p..Len(s) : IsSpace(s[q])}
    IN  IF ws = {} THEN Append(acc, SubSeq(s, p, Len(s)))
        ELSE LET q == Min(ws)
                 m == SpaceRun(s, q)
             IN  SplitWhitespaceFrom(s, q + m,
                     acc \o <<SubSeq(s, p, q - 1), SubSeq(s, q, q + m - 1)>>)

\* split(/\s+/): without the capture group the separators are dropped
SplitWhitespaceUncaptured(s) ==
    LET parts == IF Len(s) = 0 THEN << <<>> >>
                 ELSE SplitWhitespaceFrom(s, 1, <<>>)
    IN  [k \in 1..((Len(parts) + 1) \div 2) |-> parts[2 * k - 1]]

SplitWhitespace(s) ==
    IF Len(s) = 0 THEN << <<>> >> ELSE SplitWhitespaceFrom(s, 1, <<>>)

Unchanged(t) == [kind |-> "unchanged", text |-> t]

Removed(t) == [kind |-> "removed", text |-> t]

Added(t) == [kind |-> "added", text |-> t]

\* the two spans in the other order
ReplacedAddedFirst(o, c) == <<Added(c), Removed(o)>>

\* the two spans appended for a pair of different tokens
Replaced(o, c) == <<Removed(o), Added(c)>>

\* the while loop of generateDiff with 1-based cursors i and j; a segment is
\* what one += appends to diffHtml (bare text for an unchanged token, a
\* diff-removed or diff-added span otherwise)
RECURSIVE DiffWalk(_, _, _, _, _)
DiffWalk(originalWords, correctedWords, i, j, segments) ==
    IF i <= Len(originalWords) \/ j <= Len(correctedWords)
    THEN IF i > Len(originalWords)
         THEN DiffWalk(originalWords, correctedWords, i, j + 1,
                       Append(segments, Added(correctedWords[j])))
         ELSE IF j > Len(correctedWords)
         THEN DiffWalk(originalWords, correctedWords, i + 1, j,
                       Append(segments, Removed(originalWords[i])))
         ELSE IF originalWords[i] = correctedWords[j]
         THEN DiffWalk(originalWords, correctedWords, i + 1, j + 1,
                       Append(segments, Unchanged(originalWords[i])))
         ELSE DiffWalk(originalWords, correctedWords, i + 1, j + 1,
                       segments \o Replaced(originalWords[i],
                                            correctedWords[j]))
    ELSE segments

\* a comparison that ignores the surrounding whitespace
SameTrimmedText(original, corrected) == Trim(original) = Trim(corrected)

\* the test that short-circuits generateDiff
SameText(original, corrected) == original = corrected

\* generateDiff(original, corrected): the no-changes indicator, or the
\* segments in the order in which they are appended
generateDiff(original, corrected) ==
    IF SameText(original, corrected)
    THEN [noChanges |-> TRUE, segments |-> <<>>]
    ELSE [noChanges |-> FALSE,
          segments |-> DiffWalk(SplitWhitespace(original),
                                SplitWhitespace(corrected), 1, 1, <<>>)]

(***************************************************************************)
(* Inputs of the library calls                                             *)
(***************************************************************************)
MaxWords == 3

MaxRawLen == 4

MaxDiffLen == 3

Vocabulary ==
    << <<"t", "e", "h">>, <<"I">>, <<"h", "a", "s">>, <<"a">>, <<"a", "n">>,
       <<"a", "p", "p", "l", "e">>, <<"a", "r", "e">> >>

RECURSIVE JoinWords(_, _)
JoinWords(f, i) ==
    IF i > Len(f) THEN <<>>
    ELSE (IF i > 1 THEN <<" ">> ELSE <<>>) \o Vocabulary[f[i]] \o JoinWords(f, i + 1)

\* the words of the vocabulary joined by one space
Phrases ==
    UNION { {JoinWords(f, 1) : f \in [1..n -> 1..Len(Vocabulary)]} : n \in 1..MaxWords }

RawAlphabet == {"a", "n", "e", " "}

RawStrings == UNION { [1..n -> RawAlphabet] : n \in 0..MaxRawLen }

Scenario1 == <<"I", " ", "h", "a", "s", " ", "a", " ", "a", "p", "p", "l", "e">>

Scenario1Corrected ==
    <<"I", " ", "h", "a", "v", "e", " ", "a", "n", " ", "a", "p", "p", "l", "e">>

Scenario2 ==
    <<"t", "e", "h", " ", "d", "r", "e", "a", "m", "m", " ", "i", "s", " ", "o", "v", "e", "r">>

Scenario2Corrected ==
    <<"t", "h", "e", " ", "d", "r", "e", "a", "m", " ", "i", "s", " ", "o", "v", "e", "r">>

ScenarioTexts ==
    { Scenario1, Scenario2,
      <<"t", "h", "e", " ", "c", "a", "t", " ", "s", "a", "t">>,
      <<"c", "o", "n", "s", "t", "r", "u", "c", "t", "o", "r">>,
      <<"C", "o", "n", "s", "t", "r", "u", "c", "t", "o", "r">>,
      <<"C", "O", "N", "S", "T", "R", "U", "C", "T", "O", "R">>,
      <<"_", "_", "p", "r", "o", "t", "o", "_", "_">>,
      <<"t", "o", "S", "t", "r", "i", "n", "g">>,
      <<"t", "e", "h", " ", "c", "o", "n", "s", "t", "r", "u", "c", "t", "o", "r">>,
      <<" ", "t", "e", "h", ",", " ", "y", "o", "u", "r", "e", " ", "I", "\n">>,
      <<"a", "n", " ", " ", "a", "p", "p", "l", "e">>,
      <<"T", "E", "H", " ", "h", "e", " ", "a", "r", "e">>,
      <<"t", "h", "e", "y", " ", "i", "s", " ", "a", "n", " ", "c", "a", "t">>,
      <<"S", "h", "e", "\t", "h", "a", "v", "e", " ", "a", " ", "T", "e", "h">>,
      <<"d", "r", "e", "a", "m", "m", " ", "a", " ", "e", " ", "a", "n", " ", "n">>,
      <<"a", " ", "e", " ", "a", " ", "e", " ", "a", "n", " ", "n">>,
      <<"t", "e", "h", "'", "s">>,
      <<"a", "n", " ", "1", " ", "a", " ", "1">> }

Texts ==
    Phrases \cup RawStrings \cup ScenarioTexts
    \cup DOMAIN InitialSpellingCorrections

\* values that are not a non-empty string
InvalidInputs ==
    { JSString(<<>>), JSNull, JSUndefined, JSNumber(0), JSFalse,
      JSNumber(42), JSTrue, JSObject }

CorrectInputs == {JSString(t) : t \in Texts} \cup InvalidInputs

OptionPairs == [spellCheck : BOOLEAN, grammarCheck : BOOLEAN]

DiffAlphabet == {"a", "b", " "}

DiffCatSat == <<"t", "h", "e", " ", "c", "a", "t", " ", "s", "a", "t">>

DiffDogSat == <<"t", "h", "e", " ", "d", "o", "g", " ", "s", "a", "t">>

DiffSame == <<"s", "a", "m", "e", " ", "t", "e", "x", "t">>

DiffBigCatSat ==
    <<"t", "h", "e", " ", "b", "i", "g", " ", "c", "a", "t", " ", "s", "a", "t">>

DiffTexts ==
    UNION { [1..n -> DiffAlphabet] : n \in 0..MaxDiffLen }
    \cup { DiffCatSat, DiffDogSat, DiffSame, DiffBigCatSat }

\* the words and the corrections preserveCase is called with: a misspelling
\* and the pronoun in every casing, and corrections in several casings
CaseOriginals ==
    { <<"T", "E", "H">>, <<"T", "e", "h">>, <<"t", "e", "h">>,
      <<"t", "E", "H">>, <<"T", "e", "H">>, <<"I">>, <<"i">> }

CaseCorrections ==
    { <<"t", "h", "e">>, <<"T", "h", "e">>, <<"t", "H", "E">>, <<"i">>,
      <<"I">>, <<"y", "o", "u", "'", "r", "e">>, <<>> }

(***************************************************************************)
(* The library instance and its callers                                    *)
(***************************************************************************)
VARIABLES
    spellingCorrections,  \* this.spellingCorrections
    lastIndex,            \* lastIndex of the pattern of every grammar rule
    warm,                 \* a call on this instance has returned
    pc,                   \* "idle" or "returned"
    op,                   \* the method that was called
    argText,              \* its first argument
    argOther,             \* its second argument, when it is a string
    argOptions,           \* the options of correct
    result,               \* what it returned
    trace,                \* the rule and index of the grammar matches visited
    realm,                \* who uses the instance: "library" callers, the
                          \* "content" script of a page, or the "popup"
    stored,               \* the settings kept by chrome.storage.sync
    settings,             \* let settings of the content script or the popup
    settingsLoaded,       \* the getSettings response has been delivered
    inputValue,           \* the text of every text input of the page
    currentInput,         \* let currentInput
    checkButton,          \* "null", or the display of the check button
    correctionPanel,      \* the correction panel: display, contents, dataset
    grammarInputId,       \* the inputs that carry a data-grammar-input-id
    debounceTimer,        \* let debounceTimer: "null" or a timer "id"
    pendingTimers,        \* the auto-check timeouts that are armed
    errorIndicator,       \* the error indicator: display and count
    popupText,            \* inputText.value of the popup
    pendingCorrect,       \* the 100 ms timeout of the popup and its text
    libraryLoaded,        \* window.grammarChecker exists in the popup
    outputSection,        \* the output section of the popup
    lastEvent             \* what the last handler that validates text did

libVars == <<spellingCorrections, lastIndex, warm>>

callVars == <<pc, op, argText, argOther, argOptions, result, trace>>

pageVars ==
    <<inputValue, currentInput, checkButton, correctionPanel, grammarInputId,
      debounceTimer, pendingTimers, errorIndicator>>

popupVars == <<popupText, pendingCorrect, libraryLoaded, outputSection>>

hostVars ==
    <<realm, stored, settings, settingsLoaded, pageVars, popupVars, lastEvent>>

vars == <<libVars, callVars, hostVars>>

(***************************************************************************)
(* The hosts: the content script of a page and the popup                   *)
(***************************************************************************)
MAX_CHARS == 2000

\* the text inputs of the page
Elements == {"textarea", "editable"}

TagName(e) == IF e = "textarea" THEN "textarea" ELSE "div"

ContentEditable(e) == IF e = "editable" THEN "true" ELSE "inherit"

\* isTextInput(element); every input of the model has type text
isTextInput(e) ==
    \/ TagName(e) = "textarea"
    \/ TagName(e) = "input"
    \/ ContentEditable(e) = "true"

\* getInputText(element)
getInputText(e, values) ==
    IF TagName(e) \in {"textarea", "input"} THEN values[e]
    ELSE IF ContentEditable(e) = "true" THEN values[e]
    ELSE <<>>

\* The text of an input, of a selection or of a panel is kept as the sequence
\* of its runs of equal characters, so that a text of MAX_CHARS characters
\* is one run.  Pack and Unpack convert between a string and its runs.
Run(c, n) == [c |-> c, n |-> n]

Pack(s) ==
    LET starts == {i \in 1..Len(s) : i = 1 \/ s[i] # s[i - 1]}
        k == Cardinality(starts)
    IN  [j \in 1..k |->
           Run(s[KthOf(starts, j)],
               (IF j < k THEN KthOf(starts, j + 1) ELSE Len(s) + 1)
               - KthOf(starts, j))]

RECURSIVE Unpack(_)
Unpack(t) ==
    IF t = <<>> THEN <<>>
    ELSE [i \in 1..Head(t).n |-> Head(t).c] \o Unpack(Tail(t))

\* text.length
RECURSIVE TextLength(_)
TextLength(t) == IF t = <<>> THEN 0 ELSE Head(t).n + TextLength(Tail(t))

\* text.trim()
TrimText(t) ==
    LET kept == {i \in 1..Len(t) : ~IsSpace(t[i].c)}
    IN  IF kept = {} THEN <<>> ELSE SubSeq(t, Min(kept), Max(kept))

HostBlank == Pack(<<" ", " ">>)

HostTeh == Pack(<<"t", "e", "h">>)

\* one character more than the budget
HostTooLong == <<Run("x", MAX_CHARS + 1)>>

\* one character more than the budget, the budget when trimmed
HostPadded == <<Run(" ", 1), Run("x", MAX_CHARS)>>

\* what the user types or pastes into an input of the page
PageTexts == {HostBlank, HostTeh, HostTooLong}

\* what the user selects before using the context menu
SelectionTexts == {<<>>, HostTeh, HostTooLong}

\* what the user types or pastes into the popup
PopupTexts == {HostBlank, HostTeh, HostTooLong, HostPadded}

\* the settings the options page has saved
StoredSettings ==
    [spellCheck : {TRUE}, grammarCheck : {TRUE}, autoCheck : BOOLEAN]

DefaultContentSettings ==
    [spellCheck |-> TRUE, grammarCheck |-> TRUE, autoCheck |-> TRUE]

DefaultPopupSettings == [spellCheck |-> TRUE, grammarCheck |-> TRUE]

NoPanel ==
    [display |-> "null", original |-> <<>>, corrected |-> <<>>,
     diff |-> [noChanges |-> FALSE, segments |-> <<>>],
     correctedText |-> <<>>, inputId |-> "none"]

NoIndicator == [display |-> "null", count |-> 0]

NoOutput ==
    [display |-> "none", original |-> <<>>, corrected |-> <<>>,
     diff |-> [noChanges |-> FALSE, segments |-> <<>>],
     lastCorrectedText |-> <<>>]

NoEvent ==
    [handler |-> "none", alert |-> "none", called |-> FALSE,
     textLength |-> 0, shown |-> <<>>]

\* the page before any event
PageInit ==
    /\ inputValue = [e \in Elements |-> <<>>]
    /\ currentInput = "null"
    /\ checkButton = "null"
    /\ correctionPanel = NoPanel
    /\ grammarInputId = [e \in Elements |-> FALSE]
    /\ debounceTimer = "null"
    /\ pendingTimers = <<>>
    /\ errorIndicator = NoIndicator

\* the popup before any event
PopupInit ==
    /\ popupText = <<>>
    /\ pendingCorrect = [armed |-> FALSE, text |-> <<>>]
    /\ libraryLoaded = FALSE
    /\ outputSection = NoOutput

NoOptions == [spellCheck |-> FALSE, grammarCheck |-> FALSE]

ZeroLastIndex == [r \in 1..NumRules |-> 0]

\* new GrammarChecker(), no call made
LibraryInit ==
    /\ spellingCorrections = InitialSpellingCorrections
    /\ lastIndex = ZeroLastIndex
    /\ warm = FALSE
    /\ pc = "idle"
    /\ op = "none"
    /\ argText = JSUndefined
    /\ argOther = <<>>
    /\ argOptions = NoOptions
    /\ result = <<>>
    /\ trace = <<>>

\* an instance used by direct callers of the library, outside any host
Init ==
    /\ LibraryInit
    /\ realm = "library"
    /\ stored = DefaultContentSettings
    /\ settings = DefaultContentSettings
    /\ settingsLoaded = FALSE
    /\ PageInit
    /\ PopupInit
    /\ lastEvent = NoEvent

\* a caller invokes correct(text, options)
CallCorrect ==
    /\ pc = "idle"
    /\ \E t \in CorrectInputs, o \in OptionPairs :
         \E r \in {correct(t, o, spellingCorrections, lastIndex)} :
             /\ argText' = t
             /\ argOptions' = o
             /\ result' = [threw |-> r.threw, original |-> r.original,
                           spellCorrected |-> r.spellCorrected,
                           corrected |-> r.corrected, changes |-> r.changes]
             /\ trace' = r.trace
             /\ lastIndex' = r.lastIndex
    /\ pc' = "returned"
    /\ op' = "correct"
    /\ argOther' = <<>>
    /\ UNCHANGED <<spellingCorrections, warm, hostVars>>

\* a caller invokes spellCorrect(text)
CallSpellCorrect ==
    /\ pc = "idle"
    /\ \E t \in Texts :
         /\ argText' = JSString(t)
         /\ result' = spellCorrect(spellingCorrections, t)
    /\ pc' = "returned"
    /\ op' = "spellCorrect"
    /\ argOther' = <<>>
    /\ argOptions' = NoOptions
    /\ trace' = <<>>
    /\ UNCHANGED <<spellingCorrections, lastIndex, warm, hostVars>>

\* a caller invokes grammarCorrect(text)
CallGrammarCorrect ==
    /\ pc = "idle"
    /\ \E t \in Texts :
         \E r \in {grammarCorrect(t, lastIndex)} :
             /\ argText' = JSString(t)
             /\ result' = [text |-> r.text, changes |-> r.changes]
             /\ trace' = r.trace
             /\ lastIndex' = r.lastIndex
    /\ pc' = "returned"
    /\ op' = "grammarCorrect"
    /\ argOther' = <<>>
    /\ argOptions' = NoOptions
    /\ UNCHANGED <<spellingCorrections, warm, hostVars>>

\* a caller invokes preserveCase(original, correction)
CallPreserveCase ==
    /\ pc = "idle"
    /\ \E o \in CaseOriginals, c \in CaseCorrections :
         /\ argText' = JSString(o)
         /\ argOther' = c
         /\ result' = preserveCase(o, JSString(c))
    /\ pc' = "returned"
    /\ op' = "preserveCase"
    /\ argOptions' = NoOptions
    /\ trace' = <<>>
    /\ UNCHANGED <<spellingCorrections, lastIndex, warm, hostVars>>

\* a caller invokes generateDiff(original, corrected)
CallGenerateDiff ==
    /\ pc = "idle"
    /\ \E o \in DiffTexts, c \in DiffTexts :
         /\ argText' = JSString(o)
         /\ argOther' = c
         /\ result' = generateDiff(o, c)
    /\ pc' = "returned"
    /\ op' = "generateDiff"
    /\ argOptions' = NoOptions
    /\ trace' = <<>>
    /\ UNCHANGED <<spellingCorrections, lastIndex, warm, hostVars>>

\* the caller takes the result (or catches the exception)
Return ==
    /\ pc = "returned"
    /\ pc' = "idle"
    /\ op' = "none"
    /\ argText' = JSUndefined
    /\ argOther' = <<>>
    /\ argOptions' = NoOptions
    /\ result' = <<>>
    /\ trace' = <<>>
    /\ warm' = TRUE
    /\ UNCHANGED <<spellingCorrections, lastIndex, hostVars>>

Next ==
    \/ CallCorrect
    \/ CallSpellCorrect
    \/ CallGrammarCorrect
    \/ CallGenerateDiff
    \/ CallPreserveCase
    \/ Return

Spec == Init /\ [][Next]_vars

(***************************************************************************)
(* The content script                                                      *)
(***************************************************************************)
engineFrame == <<spellingCorrections, warm, callVars>>

\* what a host keeps of the result of correct
PackResult(r) ==
    [threw |-> r.threw, original |-> Pack(r.original.str),
     corrected |-> Pack(r.corrected.str), changes |-> Len(r.changes),
     lastIndex |-> r.lastIndex]

\* the texts of the hosts that are as long as the budget or longer, the
\* short texts the hosts pass again and again (the misspelling, its
\* correction, the empty selection), and what a new instance returns for
\* them
LongTexts ==
    {HostTooLong, HostPadded, TrimText(HostPadded), HostTeh, <<>>,
     Pack(<<"t", "h", "e">>)}

LongResults ==
    {<<e[1], e[2],
       PackResult(correct(JSString(Unpack(e[1])), e[2],
                          InitialSpellingCorrections, ZeroLastIndex))>> :
        e \in LongTexts \X OptionPairs}

\* window.grammarChecker.correct(text, options) as the hosts call it: the
\* result of correct, looked up for the texts of LongTexts instead of
\* recomputed
CallLibrary(text, options, dict, li) ==
    IF text \in LongTexts /\ dict = InitialSpellingCorrections
       /\ li = ZeroLastIndex
    THEN (CHOOSE e \in LongResults : e[1] = text /\ e[2] = options)[3]
    ELSE PackResult(correct(JSString(Unpack(text)), options, dict, li))

\* what a host keeps of the result of generateDiff
PackDiff(d) ==
    [noChanges |-> d.noChanges,
     segments |-> [i \in 1..Len(d.segments) |->
                     [kind |-> d.segments[i].kind,
                      text |-> Pack(d.segments[i].text)]]]

\* the diffs of the results for the texts of LongTexts
LongDiffs ==
    {<<e[3].original, e[3].corrected,
       PackDiff(generateDiff(Unpack(e[3].original), Unpack(e[3].corrected)))>> :
        e \in LongResults}

\* window.grammarChecker.generateDiff(original, corrected) as the hosts call
\* it, looked up for the texts of LongTexts instead of recomputed
CallDiff(original, corrected) ==
    IF \E e \in LongDiffs : e[1] = original /\ e[2] = corrected
    THEN (CHOOSE e \in LongDiffs : e[1] = original /\ e[2] = corrected)[3]
    ELSE PackDiff(generateDiff(Unpack(original), Unpack(corrected)))

\* the options every handler of the hosts passes to correct
SettingsOptions ==
    [spellCheck |-> settings.spellCheck, grammarCheck |-> settings.grammarCheck]

Event(h, a, c, n, shown) ==
    [handler |-> h, alert |-> a, called |-> c, textLength |-> n, shown |-> shown]

\* the callback of chrome.runtime.sendMessage({action: 'getSettings'}): the
\* background script answers with the stored settings
SettingsResponse ==
    /\ realm \in {"content", "popup"}
    /\ ~settingsLoaded
    /\ settingsLoaded' = TRUE
    /\ settings' = stored
    /\ lastEvent' = NoEvent
    /\ UNCHANGED <<realm, stored, pageVars, popupVars, libVars, callVars>>

\* a handler that arms a new timer without clearing the previous one
HandleInputNoClear(e) ==
    IF ~isTextInput(e) \/ ~settings.autoCheck
    THEN UNCHANGED <<debounceTimer, pendingTimers>>
    ELSE /\ debounceTimer' = "id"
         /\ pendingTimers' =
              Append(pendingTimers, [element |-> e, current |-> TRUE])

\* handleInput(e) for e.target = element: the timers after the handler
HandleInput(e) ==
    IF ~isTextInput(e) \/ ~settings.autoCheck
    THEN UNCHANGED <<debounceTimer, pendingTimers>>
    ELSE /\ debounceTimer' = "id"
         /\ pendingTimers' =
              Append(IF debounceTimer # "null"
                     THEN SelectSeq(pendingTimers, LAMBDA t : ~t.current)
                     ELSE pendingTimers,
                     [element |-> e, current |-> TRUE])

\* handleFocus
Focus(e) ==
    /\ realm = "content"
    /\ IF isTextInput(e)
       THEN /\ currentInput' = e
            /\ checkButton' = IF ~settings.autoCheck THEN "block" ELSE checkButton
       ELSE UNCHANGED <<currentInput, checkButton>>
    /\ lastEvent' = NoEvent
    /\ UNCHANGED <<realm, stored, settings, settingsLoaded, inputValue,
                   correctionPanel, grammarInputId, debounceTimer,
                   pendingTimers, errorIndicator, popupVars, libVars, callVars>>

\* the user changes the text of an input: the input event reaches handleInput
InputEvent(e, t) ==
    /\ realm = "content"
    /\ inputValue' = [inputValue EXCEPT ![e] = t]
    /\ HandleInput(e)
    /\ lastEvent' = NoEvent
    /\ UNCHANGED <<realm, stored, settings, settingsLoaded, currentInput,
                   checkButton, correctionPanel, grammarInputId,
                   errorIndicator, popupVars, libVars, callVars>>

\* checkText(input) called by handler h, followed by showCorrectionPanel
CheckText(h, input) ==
    LET text == getInputText(input, inputValue)
    IN  IF TextLength(text) = 0 \/ TextLength(TrimText(text)) = 0
        THEN /\ lastEvent' = Event(h, "empty", FALSE, TextLength(text), <<>>)
             /\ UNCHANGED <<correctionPanel, grammarInputId, lastIndex>>
        ELSE IF TextLength(text) > MAX_CHARS
        THEN /\ lastEvent' = Event(h, "tooLong", FALSE, TextLength(text), <<>>)
             /\ UNCHANGED <<correctionPanel, grammarInputId, lastIndex>>
        ELSE \E r \in {CallLibrary(text, SettingsOptions,
                               spellingCorrections, lastIndex)} :
               /\ lastEvent' = Event(h, "none", TRUE, TextLength(text), <<>>)
               /\ lastIndex' = r.lastIndex
               /\ IF r.threw
                  THEN UNCHANGED <<correctionPanel, grammarInputId>>
                  ELSE /\ correctionPanel' =
                            [display |-> "block",
                             original |-> r.original,
                             corrected |-> r.corrected,
                             diff |-> CallDiff(r.original, r.corrected),
                             correctedText |-> r.corrected,
                             inputId |-> input]
                       /\ grammarInputId' = [grammarInputId EXCEPT ![input] = TRUE]

\* the click listener of the check button
ClickCheckButton ==
    /\ realm = "content"
    /\ checkButton = "block"
    /\ IF currentInput # "null"
       THEN CheckText("checkButton", currentInput)
       ELSE /\ lastEvent' = NoEvent
            /\ UNCHANGED <<correctionPanel, grammarInputId, lastIndex>>
    /\ UNCHANGED <<realm, stored, settings, settingsLoaded, inputValue,
                   currentInput, checkButton, debounceTimer, pendingTimers,
                   errorIndicator, popupVars, engineFrame>>

\* the click listener of the Fix button of the error indicator
ClickFix ==
    /\ realm = "content"
    /\ errorIndicator.display = "flex"
    /\ IF currentInput # "null"
       THEN CheckText("fixButton", currentInput)
       ELSE /\ lastEvent' = NoEvent
            /\ UNCHANGED <<correctionPanel, grammarInputId, lastIndex>>
    /\ UNCHANGED <<realm, stored, settings, settingsLoaded, inputValue,
                   currentInput, checkButton, debounceTimer, pendingTimers,
                   errorIndicator, popupVars, engineFrame>>

\* the message listener, action checkGrammarFocused (keyboard shortcut)
MessageCheckGrammarFocused ==
    /\ realm = "content"
    /\ IF currentInput # "null"
       THEN CheckText("checkGrammarFocused", currentInput)
       ELSE /\ lastEvent' = Event("checkGrammarFocused", "focusFirst", FALSE, 0, <<>>)
            /\ UNCHANGED <<correctionPanel, grammarInputId, lastIndex>>
    /\ UNCHANGED <<realm, stored, settings, settingsLoaded, inputValue,
                   currentInput, checkButton, debounceTimer, pendingTimers,
                   errorIndicator, popupVars, engineFrame>>

\* the message listener, action checkGrammar (context menu): text is
\* info.selectionText || ''
MessageCheckGrammar(text) ==
    /\ realm = "content"
    /\ \E r \in {CallLibrary(text, SettingsOptions,
                         spellingCorrections, lastIndex)} :
         /\ lastIndex' = r.lastIndex
         /\ lastEvent' =
              IF r.threw THEN Event("checkGrammar", "none", TRUE, TextLength(text), <<>>)
              ELSE Event("checkGrammar", "result", TRUE, TextLength(text),
                         <<r.original, r.corrected>>)
    /\ UNCHANGED <<realm, stored, settings, settingsLoaded, pageVars,
                   popupVars, engineFrame>>

\* the callback of the debounce timeout that is due first, and autoCheckText
TimerFire ==
    /\ realm = "content"
    /\ pendingTimers # <<>>
    /\ pendingTimers' = Tail(pendingTimers)
    /\ LET element == Head(pendingTimers).element
           text == getInputText(element, inputValue)
       IN  IF TextLength(text) > 0 /\ TextLength(TrimText(text)) > 0 /\ TextLength(text) <= MAX_CHARS
           THEN \E r \in {CallLibrary(text, SettingsOptions,
                                  spellingCorrections, lastIndex)} :
                  /\ lastEvent' = Event("autoCheck", "none", TRUE, TextLength(text), <<>>)
                  /\ lastIndex' = r.lastIndex
                  /\ errorIndicator' =
                       IF r.threw THEN errorIndicator
                       ELSE IF r.original # r.corrected
                       THEN [display |-> "flex", count |-> r.changes]
                       ELSE IF errorIndicator.display = "null" THEN errorIndicator
                       ELSE [errorIndicator EXCEPT !.display = "none"]
           ELSE /\ lastEvent' = Event("autoCheck", "none", FALSE, TextLength(text), <<>>)
                /\ UNCHANGED <<errorIndicator, lastIndex>>
    /\ UNCHANGED <<realm, stored, settings, settingsLoaded, inputValue,
                   currentInput, checkButton, correctionPanel, grammarInputId,
                   debounceTimer, popupVars, engineFrame>>

\* hideCorrectionPanel, the listener of the close and cancel buttons
PanelHide ==
    /\ realm = "content"
    /\ correctionPanel.display = "block"
    /\ correctionPanel' = [correctionPanel EXCEPT !.display = "none"]
    /\ lastEvent' = NoEvent
    /\ UNCHANGED <<realm, stored, settings, settingsLoaded, inputValue,
                   currentInput, checkButton, grammarInputId, debounceTimer,
                   pendingTimers, errorIndicator, popupVars, libVars, callVars>>

\* an apply that writes into the input that has the focus
PanelApplyToCurrentInput ==
    /\ realm = "content"
    /\ correctionPanel.display = "block"
    /\ IF currentInput # "null" /\ TextLength(correctionPanel.correctedText) > 0
       THEN /\ inputValue' = [inputValue EXCEPT
                                ![currentInput] = correctionPanel.correctedText]
            /\ HandleInput(currentInput)
       ELSE UNCHANGED <<inputValue, debounceTimer, pendingTimers>>
    /\ correctionPanel' = [correctionPanel EXCEPT !.display = "none"]
    /\ lastEvent' = NoEvent
    /\ UNCHANGED <<realm, stored, settings, settingsLoaded, currentInput,
                   checkButton, grammarInputId, errorIndicator, popupVars,
                   libVars, callVars>>

\* applyCorrectionPanel, the listener of the apply button; setInputText
\* dispatches an input event, which reaches handleInput
PanelApply ==
    /\ realm = "content"
    /\ correctionPanel.display = "block"
    /\ LET correctedText == correctionPanel.correctedText
           found == {e \in Elements :
                       grammarInputId[e] /\ e = correctionPanel.inputId}
       IN  IF found # {} /\ TextLength(correctedText) > 0
           THEN \E input \in found :
                  /\ inputValue' = [inputValue EXCEPT ![input] = correctedText]
                  /\ HandleInput(input)
           ELSE UNCHANGED <<inputValue, debounceTimer, pendingTimers>>
    /\ correctionPanel' = [correctionPanel EXCEPT !.display = "none"]
    /\ lastEvent' = NoEvent
    /\ UNCHANGED <<realm, stored, settings, settingsLoaded, currentInput,
                   checkButton, grammarInputId, errorIndicator, popupVars,
                   libVars, callVars>>

(***************************************************************************)
(* The popup                                                               *)
(***************************************************************************)
\* the script element that loads the library has run
ScriptLoaded ==
    /\ realm = "popup"
    /\ ~libraryLoaded
    /\ libraryLoaded' = TRUE
    /\ lastEvent' = NoEvent
    /\ UNCHANGED <<realm, stored, settings, settingsLoaded, pageVars,
                   popupText, pendingCorrect, outputSection, libVars, callVars>>

\* the user changes the text of the popup (the field is disabled while a
\* correction is pending)
PopupInput(t) ==
    /\ realm = "popup"
    /\ ~pendingCorrect.armed
    /\ popupText' = t
    /\ lastEvent' = NoEvent
    /\ UNCHANGED <<realm, stored, settings, settingsLoaded, pageVars,
                   pendingCorrect, libraryLoaded, outputSection, libVars,
                   callVars>>

\* the click listener of the clear button
PopupClear ==
    /\ realm = "popup"
    /\ popupText' = <<>>
    /\ outputSection' = [outputSection EXCEPT !.display = "none"]
    /\ lastEvent' = NoEvent
    /\ UNCHANGED <<realm, stored, settings, settingsLoaded, pageVars,
                   pendingCorrect, libraryLoaded, libVars, callVars>>

\* the click listener of the correct button (disabled while a correction is
\* pending)
PopupClickCorrect ==
    /\ realm = "popup"
    /\ ~pendingCorrect.armed
    /\ LET text == TrimText(popupText)
       IN  IF TextLength(text) = 0
           THEN /\ lastEvent' = Event("correctBtn", "empty", FALSE, 0, <<>>)
                /\ UNCHANGED <<pendingCorrect, outputSection>>
           ELSE IF TextLength(text) > MAX_CHARS
           THEN /\ lastEvent' = Event("correctBtn", "tooLong", FALSE, TextLength(text), <<>>)
                /\ UNCHANGED <<pendingCorrect, outputSection>>
           ELSE /\ pendingCorrect' = [armed |-> TRUE, text |-> text]
                /\ outputSection' = [outputSection EXCEPT !.display = "none"]
                /\ lastEvent' = NoEvent
    /\ UNCHANGED <<realm, stored, settings, settingsLoaded, pageVars,
                   popupText, libraryLoaded, libVars, callVars>>

\* the callback of the 100 ms timeout of the correct button
PopupTimeout ==
    /\ realm = "popup"
    /\ pendingCorrect.armed
    /\ pendingCorrect' = [armed |-> FALSE, text |-> <<>>]
    /\ LET text == pendingCorrect.text
       IN  IF ~libraryLoaded
           THEN /\ lastEvent' = Event("correctBtn", "error", FALSE, TextLength(text), <<>>)
                /\ UNCHANGED <<outputSection, lastIndex>>
           ELSE \E r \in {CallLibrary(text, SettingsOptions,
                                  spellingCorrections, lastIndex)} :
                  /\ lastIndex' = r.lastIndex
                  /\ IF r.threw
                     THEN /\ lastEvent' = Event("correctBtn", "error", TRUE, TextLength(text), <<>>)
                          /\ UNCHANGED outputSection
                     ELSE /\ lastEvent' = Event("correctBtn", "none", TRUE, TextLength(text), <<>>)
                          /\ outputSection' =
                               [display |-> "block",
                                original |-> r.original,
                                corrected |-> r.corrected,
                                diff |-> CallDiff(r.original, r.corrected),
                                lastCorrectedText |-> r.corrected]
    /\ UNCHANGED <<realm, stored, settings, settingsLoaded, pageVars,
                   popupText, libraryLoaded, engineFrame>>

\* a page with its content script, or the popup, with any stored settings
HostInit ==
    /\ LibraryInit
    /\ realm \in {"content", "popup"}
    /\ stored \in StoredSettings
    /\ settings = IF realm = "content" THEN DefaultContentSettings
                  ELSE DefaultPopupSettings
    /\ settingsLoaded = FALSE
    /\ PageInit
    /\ PopupInit
    /\ lastEvent = NoEvent

HostNext ==
    \/ SettingsResponse
    \/ \E e \in Elements : Focus(e)
    \/ \E e \in Elements, t \in PageTexts : InputEvent(e, t)
    \/ ClickCheckButton
    \/ ClickFix
    \/ MessageCheckGrammarFocused
    \/ \E t \in SelectionTexts : MessageCheckGrammar(t)
    \/ TimerFire
    \/ PanelHide
    \/ PanelApply
    \/ ScriptLoaded
    \/ \E t \in PopupTexts : PopupInput(t)
    \/ PopupClear
    \/ PopupClickCorrect
    \/ PopupTimeout

HostSpec == HostInit /\ [][HostNext]_vars

(***************************************************************************)
(* Properties of the library                                               *)
(***************************************************************************)
Returned(o) == pc = "returned" /\ op = o

NonEmptyString(v) == v.type = "string" /\ Len(v.str) > 0

AllSpaces(s) == \A i \in 1..Len(s) : IsSpace(s[i])

EmptyString == JSString(<<>>)

\* the indices of the changes of one type
ChangesOfType(changes, t) == {i \in 1..Len(changes) : changes[i].type = t}

\* C1: for every non-empty string input, a result of correct with
\* grammarCheck disabled has corrected = spellCorrected; "teh dreamm is over"
\* with spellCheck only gives spellCorrected = corrected = "the dream is
\* over" and two spelling changes.
C1_CorrectedIsSpellCorrected ==
    (Returned("correct") /\ NonEmptyString(argText)
        /\ ~argOptions.grammarCheck /\ ~result.threw)
    => /\ result.corrected = result.spellCorrected
       /\ (argText.str = Scenario2 /\ argOptions.spellCheck)
          => /\ result.spellCorrected.str = Scenario2Corrected
             /\ result.corrected.str = Scenario2Corrected
             /\ Len(result.changes) = 2
             /\ ChangesOfType(result.changes, "spelling") = {1, 2}

\* C2: correct returns a result for every string input and every pair of
\* options without raising an error, and when no word token of the trimmed
\* input is a listed misspelling the spelling pass changes nothing.
C2_CorrectNeverThrows ==
    (Returned("correct") /\ argText.type = "string")
    => /\ ~result.threw
       /\ LET tokens == SplitWordBoundary(Trim(argText.str))
          IN  (argText.str # <<>> /\ argOptions.spellCheck
                 /\ \A i \in 1..Len(tokens) :
                       ToLowerCase(tokens[i]) \notin DOMAIN InitialSpellingCorrections)
              => /\ result.spellCorrected = result.original
                 /\ ChangesOfType(result.changes, "spelling") = {}

\* C3: for every invalid input (a value that is not a string, falsy or
\* truthy, or the empty string) correct raises no error and returns the
\* empty string in original, spellCorrected and corrected, and no changes.
C3_InvalidInputGivesEmptyResult ==
    (Returned("correct") /\ ~NonEmptyString(argText))
    => /\ ~result.threw
       /\ result.original = EmptyString
       /\ result.spellCorrected = EmptyString
       /\ result.corrected = EmptyString
       /\ result.changes = <<>>

\* C4: in the changes returned by correct every spelling change precedes
\* every grammar change; the spelling changes are those of the corrected
\* tokens from left to right; the grammar changes follow the order of the
\* rules and, within one rule, the order of the matches from left to right.
\* "I has a apple" with both checks gives "I have an apple" and two grammar
\* changes, of rule 3 and then of rule 5.
C4_ChangesOrdered ==
    (Returned("correct") /\ NonEmptyString(argText) /\ ~result.threw)
    => LET ch == result.changes
           ns == Cardinality(ChangesOfType(ch, "spelling"))
           tokens == SplitWordBoundary(result.original.str)
           hits == {i \in 1..Len(tokens) :
                      ToLowerCase(tokens[i]) \in DOMAIN InitialSpellingCorrections}
       IN  /\ \A i \in 1..Len(ch) :
                ch[i].type = (IF i <= ns THEN "spelling" ELSE "grammar")
           /\ ns > 0 => /\ ns = Cardinality(hits)
                        /\ \A k \in 1..ns : ch[k].original = tokens[KthOf(hits, k)]
           /\ Len(trace) = Len(ch) - ns
           /\ \A k \in 1..Len(trace) :
                /\ ch[ns + k].original = trace[k].text
                /\ ch[ns + k].message = grammarRules[trace[k].rule].message
           /\ \A k \in 1..(Len(trace) - 1) :
                \/ trace[k].rule < trace[k + 1].rule
                \/ /\ trace[k].rule = trace[k + 1].rule
                   /\ trace[k].index < trace[k + 1].index
           /\ (argText.str = Scenario1 /\ argOptions.spellCheck
                 /\ argOptions.grammarCheck)
              => /\ result.corrected.str = Scenario1Corrected
                 /\ Len(ch) = 2
                 /\ ChangesOfType(ch, "grammar") = {1, 2}
                 /\ trace[1].rule = 3
                 /\ trace[2].rule = 5

\* a result with a spelling change and grammar changes of two rules
C4_Witness ==
    /\ Returned("correct")
    /\ ~result.threw
    /\ ChangesOfType(result.changes, "spelling") # {}
    /\ Len(trace) >= 2
    /\ trace[1].rule < trace[Len(trace)].rule

\* C5: no change returned by correct has a corrected span equal to its
\* original span.
C5_NoNoOpChange ==
    (Returned("correct") /\ ~result.threw)
    => \A i \in 1..Len(result.changes) :
          result.changes[i].corrected # result.changes[i].original

\* a result with a spelling change and a grammar change
C5_Witness ==
    /\ Returned("correct")
    /\ ~result.threw
    /\ ChangesOfType(result.changes, "spelling") # {}
    /\ ChangesOfType(result.changes, "grammar") # {}

\* C6: for every non-empty string input original is the input without its
\* leading and trailing whitespace; with spellCheck disabled spellCorrected
\* is original and there is no spelling change; with both checks disabled
\* corrected is original and there is no change.
C6_TrimAndDisabledChecks ==
    (Returned("correct") /\ NonEmptyString(argText) /\ ~result.threw)
    => LET o == result.original.str
           t == argText.str
       IN  /\ result.original.type = "string"
           /\ o # <<>> => ~IsSpace(o[1]) /\ ~IsSpace(o[Len(o)])
           /\ \E a \in 0..Len(t) :
                /\ a + Len(o) <= Len(t)
                /\ SubSeq(t, a + 1, a + Len(o)) = o
                /\ AllSpaces(SubSeq(t, 1, a))
                /\ AllSpaces(SubSeq(t, a + Len(o) + 1, Len(t)))
           /\ ~argOptions.spellCheck
              => /\ result.spellCorrected = result.original
                 /\ ChangesOfType(result.changes, "spelling") = {}
           /\ (~argOptions.spellCheck /\ ~argOptions.grammarCheck)
              => /\ result.corrected = result.original
                 /\ result.changes = <<>>

\* a call with spellCheck disabled on a text with surrounding whitespace and
\* a listed misspelling
C6_Witness ==
    /\ Returned("correct")
    /\ NonEmptyString(argText)
    /\ ~argOptions.spellCheck
    /\ ~result.threw
    /\ IsSpace(argText.str[1])
    /\ IsSpace(argText.str[Len(argText.str)])
    /\ \E i \in 1..Len(SplitWordBoundary(result.original.str)) :
          ToLowerCase(SplitWordBoundary(result.original.str)[i])
             \in DOMAIN InitialSpellingCorrections

\* the position in the segments of what the walk emits for the k-th pair of
\* tokens: one segment for every equal pair before it, two for every
\* unequal pair
PairOffset(O, C, k) ==
    Cardinality({m \in 1..(k - 1) : O[m] = C[m]})
    + 2 * Cardinality({m \in 1..(k - 1) : O[m] # C[m]})

\* a segment of a diff
Segment(kind, t) == [kind |-> kind, text |-> t]

\* C7: for two different strings the diff walks the two whitespace-split
\* token sequences in lock step: an equal pair gives one Unchanged segment,
\* an unequal pair gives Removed(original token) immediately followed by
\* Added(corrected token), and the tokens left in the longer sequence are
\* all Added (corrected) or all Removed (original).  diff("the cat sat",
\* "the dog sat") is Unchanged(the), Unchanged(space), Removed(cat),
\* Added(dog), Unchanged(space), Unchanged(sat).
C7_LockStepDiff ==
    (Returned("generateDiff") /\ argText.str # argOther)
    => LET O == SplitWhitespace(argText.str)
           C == SplitWhitespace(argOther)
           n == IF Len(O) < Len(C) THEN Len(O) ELSE Len(C)
           seg == result.segments
           rest == PairOffset(O, C, n + 1)
       IN  /\ \A k \in 1..n :
                IF O[k] = C[k]
                THEN seg[PairOffset(O, C, k) + 1] = Segment("unchanged", O[k])
                ELSE /\ seg[PairOffset(O, C, k) + 1] = Segment("removed", O[k])
                     /\ seg[PairOffset(O, C, k) + 2] = Segment("added", C[k])
           /\ Len(seg) = rest + (Len(O) - n) + (Len(C) - n)
           /\ \A k \in 1..(Len(O) - n) : seg[rest + k] = Segment("removed", O[n + k])
           /\ \A k \in 1..(Len(C) - n) : seg[rest + k] = Segment("added", C[n + k])
           /\ (argText.str = DiffCatSat /\ argOther = DiffDogSat)
              => seg = << Segment("unchanged", <<"t", "h", "e">>), Segment("unchanged", <<" ">>),
                          Segment("removed", <<"c", "a", "t">>), Segment("added", <<"d", "o", "g">>),
                          Segment("unchanged", <<" ">>), Segment("unchanged", <<"s", "a", "t">>) >>

\* a diff with an equal pair, an unequal pair and tokens left over
C7_Witness ==
    /\ Returned("generateDiff")
    /\ ~result.noChanges
    /\ Len(SplitWhitespace(argText.str)) # Len(SplitWhitespace(argOther))
    /\ \E k \in 1..Len(result.segments) : result.segments[k].kind = "unchanged"
    /\ \E k \in 1..(Len(result.segments) - 1) :
          /\ result.segments[k].kind = "removed"
          /\ result.segments[k + 1].kind = "added"

\* C8: the diff returns the no-changes indicator exactly when original and
\* corrected are equal strings: never a sequence of segments for equal
\* inputs, never the indicator for different inputs.
C8_IndicatorIffEqual ==
    Returned("generateDiff")
    => /\ result.noChanges <=> (argText.str = argOther)
       /\ result.noChanges => result.segments = <<>>
       /\ ~result.noChanges => result.segments # <<>>

\* a diff of two equal non-empty strings
C8_Witness ==
    /\ Returned("generateDiff")
    /\ argText.str = argOther
    /\ Len(argOther) > 1
    /\ result.noChanges

\* C9: whatever calls were made, the dictionary and the state of the rule
\* patterns are those of a new instance, and a result of correct is the one
\* a new instance gives for the same text and options.
C9_SharedStateUnchanged ==
    /\ spellingCorrections = InitialSpellingCorrections
    /\ lastIndex = ZeroLastIndex
    /\ Returned("correct")
       => \A fresh \in {correct(argText, argOptions,
                                  InitialSpellingCorrections, ZeroLastIndex)} :
              /\ result.threw = fresh.threw
              /\ result.corrected = fresh.corrected
              /\ result.spellCorrected = fresh.spellCorrected
              /\ result.changes = fresh.changes

\* a result of correct with grammar changes on an instance that has already
\* served a call
C9_Witness ==
    /\ warm
    /\ Returned("correct")
    /\ ~result.threw
    /\ Len(trace) > 0
    /\ ChangesOfType(result.changes, "spelling") # {}

(***************************************************************************)
(* Properties of the hosts                                                 *)
(***************************************************************************)
\* C10: whenever a handler of a host (check button, Fix button, keyboard
\* shortcut message, context-menu message, debounced auto-check, Correct
\* button of the popup) invokes correct, the text is at most MAX_CHARS
\* characters long, and a text longer than that gets a user-facing rejection
\* instead of a call.
C10_LengthValidatedBeforeCorrect ==
    /\ lastEvent.called => lastEvent.textLength <= MAX_CHARS
    /\ (lastEvent.handler # "none" /\ lastEvent.textLength > MAX_CHARS)
       => /\ ~lastEvent.called
          /\ lastEvent.alert = "tooLong"

\* C11: every focus event on a text input leaves the floating check button
\* visible, whatever the settings are (the defaults before the stored
\* settings arrive, or the stored ones).
C11_FocusShowsButton ==
    [][\A e \in Elements :
          (isTextInput(e) /\ Focus(e)) => checkButton' = "block"]_vars

(***************************************************************************)
(* Properties of the spell checker                                         *)
(***************************************************************************)
\* the tokens spellCorrect maps over
TokensOf(s) == SplitWordBoundary(s)

\* a token whose lowercase form is a key of the dictionary
IsMisspelling(word) == ToLowerCase(word) \in DOMAIN InitialSpellingCorrections

\* C12: the tokens of a text concatenate to the text, and spellCorrect
\* returns a text none of whose tokens is a dictionary misspelling
\* unchanged, with no change recorded.
C12_LosslessTokenization ==
    Returned("spellCorrect")
    => /\ Join(TokensOf(argText.str)) = argText.str
       /\ (\A i \in 1..Len(TokensOf(argText.str)) :
              ~IsMisspelling(TokensOf(argText.str)[i]))
          => /\ ~result.threw
             /\ result.text = argText.str
             /\ result.changes = <<>>

\* the case-preserved correction of a token that is a dictionary misspelling
CorrectionOf(word) ==
    preserveCase(word,
                 JSString(InitialSpellingCorrections[ToLowerCase(word)])).str

\* the positions of the tokens of s that are dictionary misspellings
MisspelledAt(s) ==
    {i \in 1..Len(TokensOf(s)) : IsMisspelling(TokensOf(s)[i])}

\* C13: spellCorrect returns the tokens of the text with exactly those that
\* are dictionary misspellings replaced by their case-preserved correction,
\* every other token unchanged in its position, and records one change per
\* replaced token, in order, with the token as original, the replacement as
\* corrected and the message Spelling: "<token>" -> "<replacement>".
C13_ExactlyMisspellingsReplaced ==
    Returned("spellCorrect")
    => /\ ~result.threw
       /\ result.text =
            Join([i \in 1..Len(TokensOf(argText.str)) |->
                    IF i \in MisspelledAt(argText.str)
                    THEN CorrectionOf(TokensOf(argText.str)[i])
                    ELSE TokensOf(argText.str)[i]])
       /\ Len(result.changes) = Cardinality(MisspelledAt(argText.str))
       /\ \A k \in 1..Len(result.changes) :
            \A w \in {TokensOf(argText.str)[KthOf(MisspelledAt(argText.str), k)]} :
                /\ result.changes[k].original = w
                /\ result.changes[k].corrected = CorrectionOf(w)
                /\ result.changes[k].message =
                     SpellingPrefix \o w \o SpellingArrow \o CorrectionOf(w)
                     \o <<"\"">>

\* a word all of whose letters are capitals
EntirelyUppercase(word) == \A i \in 1..Len(word) : word[i] \in UpperSet

\* a string with only its first character uppercased
Capitalized(s) ==
    IF Len(s) = 0 THEN <<>> ELSE <<ToUpperChar(s[1])>> \o Tail(s)

\* C14: preserveCase returns the correction entirely uppercased when the
\* original is entirely uppercase; otherwise the correction with only its
\* first character uppercased and the rest unchanged when the first
\* character of the original is uppercase; otherwise the correction entirely
\* lowercased.  So ("TEH","the") gives "THE", ("Teh","the") gives "The",
\* ("teh","the") gives "the" and ("I","i") gives "I".
C14_PreserveCaseOrder ==
    Returned("preserveCase")
    => /\ ~result.threw
       /\ result.str =
            IF EntirelyUppercase(argText.str) THEN ToUpperCase(argOther)
            ELSE IF argText.str[1] \in UpperSet THEN Capitalized(argOther)
            ELSE ToLowerCase(argOther)
       /\ (argText.str = <<"T", "E", "H">> /\ argOther = <<"t", "h", "e">>)
          => result.str = <<"T", "H", "E">>
       /\ (argText.str = <<"T", "e", "h">> /\ argOther = <<"t", "h", "e">>)
          => result.str = <<"T", "h", "e">>
       /\ (argText.str = <<"t", "e", "h">> /\ argOther = <<"t", "h", "e">>)
          => result.str = <<"t", "h", "e">>
       /\ (argText.str = <<"I">> /\ argOther = <<"i">>)
          => result.str = <<"I">>

\* preserveCase has returned for the single-letter capital word, which
\* passes both the all-uppercase and the first-letter test
C14_Witness ==
    /\ Returned("preserveCase")
    /\ argText.str = <<"I">>
    /\ argOther = <<"y", "o", "u", "'", "r", "e">>
    /\ result.str = <<"Y", "O", "U", "'", "R", "E">>

\* C15: spellCorrect is idempotent: a second run on the text a first run
\* returned gives that text again and records no change.
C15_SpellCorrectIdempotent ==
    Returned("spellCorrect")
    => /\ ~result.threw
       /\ \A again \in {spellCorrect(spellingCorrections, result.text)} :
             /\ ~again.threw
             /\ again.text = result.text
             /\ again.changes = <<>>

(***************************************************************************)
(* Properties of the grammar rules                                         *)
(***************************************************************************)
\* the working copy of grammarCorrect(text) after the first n rules
RECURSIVE WorkingCopy(_, _)
WorkingCopy(text, n) ==
    IF n = 0 THEN text
    ELSE Replace(WorkingCopy(text, n - 1), grammarRules[n]).text

\* for every non-overlapping match of the pattern of a rule in the working
\* copy w, the matched text and the text the global substitution puts in
\* its place
Substitutions(w, rule, matches) ==
    [i \in 1..Len(matches) |->
       [original |-> matches[i].text,
        corrected |-> Expand(rule.replacement, matches[i].group1)]]

\* the substitutions of rules n..NumRules of grammarCorrect(text), in order
RECURSIVE SubstitutionsFrom(_, _)
SubstitutionsFrom(text, n) ==
    IF n > NumRules THEN <<>>
    ELSE Substitutions(WorkingCopy(text, n - 1), grammarRules[n],
                       MatchesFrom(WorkingCopy(text, n - 1), 1,
                                   grammarRules[n], <<>>))
         \o SubstitutionsFrom(text, n + 1)

\* C16: grammarCorrect applies the six rules in their order, every rule to
\* the working copy the rules before it left; it records one grammar change
\* per non-overlapping match of a rule in the working copy before the
\* substitution of that rule, with the matched text as original and, as
\* corrected, the text the global substitution of the rule puts in place of
\* that match in the working copy.
C16_RulesOnWorkingCopy ==
    Returned("grammarCorrect")
    => /\ result.text = WorkingCopy(argText.str, NumRules)
       /\ [i \in 1..Len(result.changes) |->
             [original |-> result.changes[i].original,
              corrected |-> result.changes[i].corrected]]
          = SubstitutionsFrom(argText.str, 1)
       /\ \A i \in 1..Len(result.changes) :
             result.changes[i].type = "grammar"

\* grammarCorrect has returned after a rule with two matches and a later
\* rule that matched in a working copy that differs from the text
C16_Witness ==
    /\ Returned("grammarCorrect")
    /\ \E i, j, k \in 1..Len(trace) :
          /\ i < j
          /\ j < k
          /\ trace[i].rule = trace[j].rule
          /\ trace[j].rule < trace[k].rule
          /\ WorkingCopy(argText.str, trace[k].rule - 1) # argText.str
    /\ Len(result.changes) = Len(trace)

\* the text t is the article followed by one or more whitespace characters
\* and one more character
ArticleThenSpaces(t, article) ==
    /\ Len(t) >= Len(article) + 2
    /\ ToLowerCase(SubSeq(t, 1, Len(article))) = article
    /\ \A q \in (Len(article) + 1)..(Len(t) - 1) : IsSpace(t[q])

IsVowelLetter(c) == ToLowerChar(c) \in VowelChars

IsConsonantLetter(c) == c \in LowerSet \cup UpperSet /\ ~IsVowelLetter(c)

\* C17: whatever the amount of whitespace after the article, rule 5 rewrites
\* "a" only when the word that follows starts with a vowel letter, and rule
\* 6 rewrites "an" only when the word that follows starts with a consonant
\* letter: never before a vowel and never before something that is not a
\* letter.
C17_ArticleRulesLetterCondition ==
    Returned("grammarCorrect")
    => \A i \in 1..Len(trace) :
          /\ trace[i].rule = 5
             => /\ ArticleThenSpaces(trace[i].text, <<"a">>)
                /\ IsVowelLetter(trace[i].text[Len(trace[i].text)])
          /\ trace[i].rule = 6
             => /\ ArticleThenSpaces(trace[i].text, <<"a", "n">>)
                /\ IsConsonantLetter(trace[i].text[Len(trace[i].text)])

(***************************************************************************)
(* Properties of the tokenizer                                             *)
(***************************************************************************)
\* an alphanumeric character or an apostrophe
IsRunChar(c) == c \in LowerSet \cup UpperSet \cup DigitChars \cup {"'"}

\* s cut into its maximal runs of alphanumeric-plus-apostrophe characters
\* and the runs of other characters between them, from position p on
RECURSIVE RunTokensFrom(_, _, _)
RunTokensFrom(s, p, acc) ==
    IF p > Len(s) THEN acc
    ELSE LET e == Min({q \in (p + 1)..Len(s) :
                         IsRunChar(s[q]) # IsRunChar(s[p])}
                      \cup {Len(s) + 1})
         IN  RunTokensFrom(s, e, Append(acc, SubSeq(s, p, e - 1)))

RunTokens(s) == RunTokensFrom(s, 1, <<>>)

\* C18: the tokens spellCorrect looks up are the maximal runs of
\* alphanumeric-plus-apostrophe characters: a call that returns gives the
\* text with the runs that are dictionary misspellings replaced, so "teh's"
\* is one token, is not a misspelling, and comes back unchanged.
C18_ApostropheInsideToken ==
    (Returned("spellCorrect") /\ ~result.threw)
    => /\ result.text =
            Join([i \in 1..Len(RunTokens(argText.str)) |->
                    IF IsMisspelling(RunTokens(argText.str)[i])
                    THEN CorrectionOf(RunTokens(argText.str)[i])
                    ELSE RunTokens(argText.str)[i]])
       /\ argText.str = <<"t", "e", "h", "'", "s">>
          => /\ result.text = argText.str
             /\ result.changes = <<>>

\* C18 as amended: the tokens spellCorrect looks up are the maximal runs of
\* word characters (letters, digits, underscore) and the maximal runs of
\* other characters between them; an apostrophe is not a word character, so
\* "teh" in "teh's" is a token of its own and is corrected: the result is
\* "the's" with one change.
C18_WordCharacterRuns ==
    Returned("spellCorrect")
    => /\ Join(TokensOf(argText.str)) = argText.str
       /\ \A i \in 1..Len(TokensOf(argText.str)) :
             \A w \in {TokensOf(argText.str)[i]} :
                 /\ Len(w) > 0 \/ Len(argText.str) = 0
                 /\ \A q \in 2..Len(w) : IsWordChar(w[q]) = IsWordChar(w[1])
       /\ \A i \in 2..Len(TokensOf(argText.str)) :
             IsWordChar(TokensOf(argText.str)[i][1])
             # IsWordChar(TokensOf(argText.str)[i - 1][1])
       /\ argText.str = <<"t", "e", "h", "'", "s">>
          => /\ ~result.threw
             /\ result.text = <<"t", "h", "e", "'", "s">>
             /\ Len(result.changes) = 1
             /\ result.changes[1].original = <<"t", "e", "h">>

\* spellCorrect has returned for a text with an apostrophe after a
\* misspelling
C18_Witness ==
    /\ Returned("spellCorrect")
    /\ argText.str = <<"t", "e", "h", "'", "s">>
    /\ TokensOf(argText.str) = << <<"t", "e", "h">>, <<"'">>, <<"s">> >>
    /\ result.text = <<"t", "h", "e", "'", "s">>

(***************************************************************************)
(* Properties of the result of correct and of the diff                     *)
(***************************************************************************)
\* C19: for every string input and every pair of options, the changes of a
\* result of correct are empty exactly when its corrected text equals its
\* original text (the test the auto-check uses to decide whether there is
\* anything to report).
C19_NoChangesIffSameText ==
    (Returned("correct") /\ argText.type = "string" /\ ~result.threw)
    => (result.changes = <<>> <=> result.corrected = result.original)

\* the texts of the segments of the given kinds, in order
TextsOfKinds(segments, kinds) ==
    [i \in 1..Len(SelectSeq(segments, LAMBDA x : x.kind \in kinds)) |->
       SelectSeq(segments, LAMBDA x : x.kind \in kinds)[i].text]

\* the number of iterations of the walk that appended the segments: a
\* Removed segment immediately followed by an Added one comes from one
\* iteration, every other segment from an iteration of its own
WalkSteps(segments) ==
    Cardinality({k \in 1..Len(segments) :
                   \/ segments[k].kind # "added"
                   \/ k = 1
                   \/ segments[k - 1].kind # "removed"})

\* C20: for two different strings, the texts of the Unchanged and Removed
\* segments of the diff concatenate to the original and those of the
\* Unchanged and Added segments to the corrected text, and the walk ends
\* after at most len(originalTokens) + len(correctedTokens) iterations.
C20_DiffReconstructsInputs ==
    (Returned("generateDiff") /\ argText.str # argOther)
    => /\ ~result.noChanges
       /\ Join(TextsOfKinds(result.segments, {"unchanged", "removed"}))
          = argText.str
       /\ Join(TextsOfKinds(result.segments, {"unchanged", "added"}))
          = argOther
       /\ WalkSteps(result.segments)
          <= Len(SplitWhitespace(argText.str)) + Len(SplitWhitespace(argOther))

\* a diff of two different texts, one starting with whitespace, with a
\* whitespace separator kept, a replaced token and tokens left over
C20_Witness ==
    /\ Returned("generateDiff")
    /\ argText.str # argOther
    /\ Len(argText.str) > 0 /\ IsSpace(argText.str[1])
    /\ WalkSteps(result.segments) < Len(result.segments)
    /\ \E k \in 1..Len(result.segments) :
          /\ result.segments[k].kind = "unchanged"
          /\ Len(result.segments[k].text) > 0
          /\ AllSpaces(result.segments[k].text)
    /\ result.segments[Len(result.segments)].kind = "added"
    /\ result.segments[Len(result.segments) - 1].kind = "added"

(***************************************************************************)
(* Properties of the correction panel and of the auto-check timer          *)
(***************************************************************************)
\* the handlers that run checkText
CheckHandlers == {"checkButton", "fixButton", "checkGrammarFocused"}

\* this step is a check that shows the correction panel
PanelShownByCheck ==
    /\ lastEvent'.handler \in CheckHandlers
    /\ lastEvent'.called
    /\ correctionPanel'.display = "block"

\* C21: a check of input X shows the panel with X as its input and the
\* corrected text of X as the text to apply; Cancel or Close hides the panel
\* and changes the text of no input; Apply writes the text kept by the panel
\* into the input kept by the panel (the one that was checked, wherever the
\* focus is now) and into no other input, and hides the panel.
C21_PanelAcceptReject ==
    [][/\ PanelShownByCheck
          => /\ correctionPanel'.inputId = currentInput
             /\ correctionPanel'.original = TrimText(inputValue[currentInput])
             /\ correctionPanel'.correctedText = correctionPanel'.corrected
             /\ TextLength(correctionPanel'.correctedText) > 0
       /\ PanelHide
          => /\ inputValue' = inputValue
             /\ correctionPanel'.display = "none"
       /\ PanelApply
          => /\ inputValue' =
                  [inputValue EXCEPT
                     ![correctionPanel.inputId] = correctionPanel.correctedText]
             /\ correctionPanel'.display = "none"]_vars

\* the panel is hidden after an apply that wrote a corrected text which
\* differs from the checked one into the checked input, while the focus is
\* on another input that kept its text
C21_Witness ==
    /\ correctionPanel.display = "none"
    /\ correctionPanel.inputId \in Elements
    /\ correctionPanel.corrected # correctionPanel.original
    /\ inputValue[correctionPanel.inputId] = correctionPanel.correctedText
    /\ currentInput \in Elements \ {correctionPanel.inputId}
    /\ inputValue[currentInput] = HostTeh

\* the text is not blank and within the budget
AutoCheckable(text) ==
    /\ TextLength(text) > 0
    /\ TextLength(TrimText(text)) > 0
    /\ TextLength(text) <= MAX_CHARS

\* C22: with auto-check enabled, at most one auto-check timer is pending at
\* any moment; an input event on a text input leaves exactly one pending
\* timer, the one it armed for its own element, so a timer that fires is the
\* one of the latest input event; and the timer callback calls correct only
\* when the text of that element, read when the timer fires, is not blank
\* and at most MAX_CHARS characters long.
C22_OnePendingTimer ==
    [][/\ Len(pendingTimers) <= 1
       /\ Len(pendingTimers') <= 1
       /\ \A e \in Elements :
             (realm = "content" /\ settings.autoCheck /\ isTextInput(e)
                /\ \E t \in PageTexts : InputEvent(e, t))
             => pendingTimers' = <<[element |-> e, current |-> TRUE]>>
       /\ TimerFire
          => /\ pendingTimers' = <<>>
             /\ lastEvent'.handler = "autoCheck"
             /\ lastEvent'.called
                => AutoCheckable(inputValue[Head(pendingTimers).element])]_vars

\* the timer of the latest input event has fired and called correct on the
\* text of its element, after input events on both inputs, and no timer is
\* left pending
C22_Witness ==
    /\ realm = "content"
    /\ settings.autoCheck
    /\ lastEvent.handler = "autoCheck"
    /\ lastEvent.called
    /\ lastEvent.textLength = TextLength(HostTeh)
    /\ pendingTimers = <<>>
    /\ debounceTimer = "id"
    /\ inputValue["textarea"] = HostTooLong
    /\ inputValue["editable"] = HostTeh

====
